---- MODULE Spec2Model ----
(***************************************************************************)
(* Model of the KeyValue NEAR contract (src/src/lib.rs).                   *)
(*                                                                         *)
(* The contract is one struct, KeyValue, holding one                       *)
(* near_sdk::collections::UnorderedMap<String, String> under the prefix    *)
(* b"r".  Every call of a #[near_bindgen] method reads the struct from the *)
(* host storage (or default-initialises it), runs the method body and, for *)
(* a &mut self method, writes the struct back.  The map keeps its entries  *)
(* in the host storage: an index record per key and two vectors (keys,     *)
(* values) whose lengths live in the struct.                               *)
(*                                                                         *)
(* Bytes are integers 0..255, byte strings are sequences of them, and an   *)
(* Option<T> is the empty sequence (None) or a one-element sequence.       *)
(***************************************************************************)
EXTENDS Integers, Sequences, FiniteSets, TLC

(* ------------------------------ bounds --------------------------------- *)
MaxKeyLen == 1
MaxValLen == 1

KeyChars == {97}
ValChars == {98}

RECURSIVE SeqsUpTo(_, _)
SeqsUpTo(S, n) ==
    IF n = 0 THEN {<<>>}
    ELSE LET P == SeqsUpTo(S, n - 1) IN P \cup {Append(s, c) : s \in P, c \in S}

Keys == SeqsUpTo(KeyChars, MaxKeyLen)
Vals == SeqsUpTo(ValChars, MaxValLen)

(* ------------------------------ codec ---------------------------------- *)
RECURSIVE LE(_, _)
(* n.to_le_bytes() for an integer of w bytes *)
LE(n, w) == IF w = 0 THEN <<>> ELSE <<n % 256>> \o LE(n \div 256, w - 1)

RECURSIVE FromLE(_)
FromLE(b) == IF Len(b) = 0 THEN 0 ELSE b[1] + 256 * FromLE(Tail(b))

(* borsh: a String is its u32 little-endian byte length, then its bytes *)
BorshString(s) == LE(Len(s), 4) \o s

BorshStringOk(b) == Len(b) >= 4 /\ FromLE(SubSeq(b, 1, 4)) = Len(b) - 4

(* variant: the payload is taken one byte early *)
UnBorshString_OffByOne(b) == SubSeq(b, 4, Len(b))

UnBorshString(b) == SubSeq(b, 5, Len(b))

(* UnorderedMap::serialize_index / deserialize_index: u64 little endian *)
serialize_index(i) == LE(i, 8)

deserialize_index(raw) == FromLE(raw)

(* ------------------------------ host ----------------------------------- *)
(* A host is the storage trie of the call, the host calls made so far in   *)
(* their order, and whether the call is still running (ok) or has          *)
(* panicked.                                                               *)
Event(fn, key, msg) == [fn |-> fn, key |-> key, msg |-> msg]

Ev(h, fn, key, msg) == [h EXCEPT !.ev = Append(@, Event(fn, key, msg))]

panic(h) == [h EXCEPT !.ok = FALSE]

storage_has(h, key) == key \in DOMAIN h.st

(* value of env::storage_read: None or Some(bytes) *)
storage_get(h, key) == IF key \in DOMAIN h.st THEN <<h.st[key]>> ELSE <<>>

storage_read(h, key) == Ev(h, "storage_read", key, "")

storage_write(h, key, val) ==
    [Ev(h, "storage_write", key, "") EXCEPT
        !.st = [x \in (DOMAIN h.st) \cup {key} |-> IF x = key THEN val ELSE h.st[x]]]

storage_remove(h, key) ==
    [Ev(h, "storage_remove", key, "") EXCEPT
        !.st = [x \in (DOMAIN h.st) \ {key} |-> h.st[x]]]

log(h, msg) == Ev(h, "log", <<>>, msg)

(* ------------------------------ Vector --------------------------------- *)
(* near_sdk::collections::Vector: [len, prefix]; element i is stored under *)
(* prefix ++ i.to_le_bytes()                                               *)
index_to_lookup_key(vec, i) == vec.prefix \o LE(i, 8)

Vector_push_raw(h, vec, raw) ==
    [h   |-> storage_write(h, index_to_lookup_key(vec, vec.len), raw),
     vec |-> [vec EXCEPT !.len = @ + 1]]

Vector_pop_raw(h, vec) ==
    IF vec.len = 0 THEN [h |-> panic(h), vec |-> vec, ret |-> <<>>]
    ELSE LET k == index_to_lookup_key(vec, vec.len - 1) IN
         IF storage_has(h, k)
         THEN [h   |-> storage_remove(h, k),
               vec |-> [vec EXCEPT !.len = @ - 1],
               ret |-> h.st[k]]
         ELSE [h |-> panic(storage_remove(h, k)),
               vec |-> [vec EXCEPT !.len = @ - 1], ret |-> <<>>]

Vector_replace_raw(h, vec, i, raw) ==
    IF i >= vec.len THEN [h |-> panic(h), vec |-> vec]
    ELSE LET k == index_to_lookup_key(vec, i) IN
         IF storage_has(h, k)
         THEN [h |-> storage_write(h, k, raw), vec |-> vec]
         ELSE [h |-> panic(storage_write(h, k, raw)), vec |-> vec]

Vector_swap_remove_raw(h, vec, i) ==
    IF i >= vec.len THEN [h |-> panic(h), vec |-> vec]
    ELSE IF i + 1 = vec.len
    THEN LET p == Vector_pop_raw(h, vec) IN [h |-> p.h, vec |-> p.vec]
    ELSE LET k == index_to_lookup_key(vec, i)
             p == Vector_pop_raw(h, vec)
         IN  IF ~p.h.ok THEN [h |-> p.h, vec |-> p.vec]
             ELSE IF storage_has(p.h, k)
             THEN [h |-> storage_write(p.h, k, p.ret), vec |-> p.vec]
             ELSE [h |-> panic(storage_write(p.h, k, p.ret)), vec |-> p.vec]

(* Option<bytes>; a missing element below len is an inconsistent state *)
Vector_get_raw(h, vec, i) ==
    IF i >= vec.len THEN [h |-> h, ret |-> <<>>]
    ELSE LET k == index_to_lookup_key(vec, i) IN
         IF storage_has(h, k)
         THEN [h |-> storage_read(h, k), ret |-> storage_get(h, k)]
         ELSE [h |-> panic(storage_read(h, k)), ret |-> <<>>]

(* ---------------------------- UnorderedMap ------------------------------ *)
(* near_sdk::collections::UnorderedMap: [key_index_prefix, keys, values];  *)
(* key_index_prefix ++ key holds the index of the key in both vectors      *)
UnorderedMap_new(prefix) ==
    [key_index_prefix |-> prefix \o <<105>>,
     keys   |-> [len |-> 0, prefix |-> prefix \o <<107>>],
     values |-> [len |-> 0, prefix |-> prefix \o <<118>>]]

(* variant: the key is not appended to the prefix *)
raw_key_to_index_lookup_NoKey(m, key_raw) == m.key_index_prefix

raw_key_to_index_lookup(m, key_raw) == m.key_index_prefix \o key_raw

(* variant: a known key is pushed again instead of replaced in place *)
UnorderedMap_insert_AlwaysPush(h, m, k, v) ==
    LET index_lookup == raw_key_to_index_lookup(m, BorshString(k))
        h1 == storage_read(h, index_lookup)
        h2 == storage_write(h1, index_lookup, serialize_index(m.keys.len))
        pk == Vector_push_raw(h2, m.keys, BorshString(k))
        pv == Vector_push_raw(pk.h, m.values, BorshString(v))
    IN  [h |-> pv.h, m |-> [m EXCEPT !.keys = pk.vec, !.values = pv.vec]]

(* UnorderedMap::insert: replace the value of a known key in place, push   *)
(* a new key at the end                                                    *)
UnorderedMap_insert(h, m, k, v) ==
    LET index_lookup == raw_key_to_index_lookup(m, BorshString(k))
        h1 == storage_read(h, index_lookup)
    IN  IF storage_has(h, index_lookup)
        THEN LET r == Vector_replace_raw(h1, m.values,
                          deserialize_index(h.st[index_lookup]), BorshString(v))
             IN  [h |-> r.h, m |-> [m EXCEPT !.values = r.vec]]
        ELSE LET h2 == storage_write(h1, index_lookup, serialize_index(m.keys.len))
                 pk == Vector_push_raw(h2, m.keys, BorshString(k))
                 pv == Vector_push_raw(pk.h, m.values, BorshString(v))
             IN  [h |-> pv.h, m |-> [m EXCEPT !.keys = pk.vec, !.values = pv.vec]]

(* variant: a missing key reads as the default String *)
UnorderedMap_get_OrDefault(h, m, k) ==
    LET index_lookup == raw_key_to_index_lookup(m, BorshString(k))
        h1 == storage_read(h, index_lookup)
    IN  IF ~storage_has(h, index_lookup) THEN [h |-> h1, ret |-> << <<>> >>]
        ELSE LET g == Vector_get_raw(h1, m.values, deserialize_index(h.st[index_lookup]))
             IN  IF ~g.h.ok \/ g.ret = <<>> THEN [h |-> panic(g.h), ret |-> <<>>]
                 ELSE IF ~BorshStringOk(g.ret[1]) THEN [h |-> panic(g.h), ret |-> <<>>]
                 ELSE [h |-> g.h, ret |-> <<UnBorshString(g.ret[1])>>]

(* UnorderedMap::get: Option<String> *)
UnorderedMap_get(h, m, k) ==
    LET index_lookup == raw_key_to_index_lookup(m, BorshString(k))
        h1 == storage_read(h, index_lookup)
    IN  IF ~storage_has(h, index_lookup) THEN [h |-> h1, ret |-> <<>>]
        ELSE LET g == Vector_get_raw(h1, m.values, deserialize_index(h.st[index_lookup]))
             IN  IF ~g.h.ok \/ g.ret = <<>> THEN [h |-> panic(g.h), ret |-> <<>>]
                 ELSE IF ~BorshStringOk(g.ret[1]) THEN [h |-> panic(g.h), ret |-> <<>>]
                 ELSE [h |-> g.h, ret |-> <<UnBorshString(g.ret[1])>>]

(* variant: the index record of the moved key is left as it was *)
RelocateLast_StaleIndex(h, m, key_raw, index_raw) ==
    LET l == Vector_get_raw(h, m.keys, m.keys.len - 1) IN
    IF ~l.h.ok \/ l.ret = <<>> THEN panic(l.h)
    ELSE storage_remove(l.h, raw_key_to_index_lookup(m, key_raw))

(* the index record of the last key is rewritten when that key is moved    *)
(* into the hole left by the removed one                                   *)
RelocateLast(h, m, key_raw, index_raw) ==
    LET l == Vector_get_raw(h, m.keys, m.keys.len - 1) IN
    IF ~l.h.ok \/ l.ret = <<>> THEN panic(l.h)
    ELSE LET h2 == storage_remove(l.h, raw_key_to_index_lookup(m, key_raw)) IN
         IF l.ret[1] # key_raw
         THEN storage_write(h2, raw_key_to_index_lookup(m, l.ret[1]), index_raw)
         ELSE h2

(* variant: an absent key removes the last element of both vectors *)
UnorderedMap_remove_AbsentPops(h, m, k) ==
    LET key_raw      == BorshString(k)
        index_lookup == raw_key_to_index_lookup(m, key_raw)
        h1 == storage_read(h, index_lookup)
    IN  IF ~storage_has(h, index_lookup)
        THEN IF m.keys.len = 0 THEN [h |-> h1, m |-> m]
             ELSE LET pk == Vector_pop_raw(h1, m.keys)
                      pv == Vector_pop_raw(pk.h, m.values)
                  IN  [h |-> pv.h, m |-> [m EXCEPT !.keys = pk.vec, !.values = pv.vec]]
        ELSE LET index_raw == h.st[index_lookup]
                 h2 == IF m.keys.len = 1 THEN storage_remove(h1, index_lookup)
                       ELSE RelocateLast(h1, m, key_raw, index_raw)
                 rk == Vector_swap_remove_raw(h2, m.keys, deserialize_index(index_raw))
                 rv == Vector_swap_remove_raw(rk.h, m.values, deserialize_index(index_raw))
             IN  IF ~h2.ok THEN [h |-> h2, m |-> m]
                 ELSE IF ~rk.h.ok THEN [h |-> rk.h, m |-> m]
                 ELSE [h |-> rv.h, m |-> [m EXCEPT !.keys = rk.vec, !.values = rv.vec]]

(* UnorderedMap::remove: swap-remove from both vectors; absent key: None   *)
UnorderedMap_remove(h, m, k) ==
    LET key_raw      == BorshString(k)
        index_lookup == raw_key_to_index_lookup(m, key_raw)
        h1 == storage_read(h, index_lookup)
    IN  IF ~storage_has(h, index_lookup) THEN [h |-> h1, m |-> m]
        ELSE LET index_raw == h.st[index_lookup]
                 h2 == IF m.keys.len = 1 THEN storage_remove(h1, index_lookup)
                       ELSE RelocateLast(h1, m, key_raw, index_raw)
                 rk == Vector_swap_remove_raw(h2, m.keys, deserialize_index(index_raw))
                 rv == Vector_swap_remove_raw(rk.h, m.values, deserialize_index(index_raw))
             IN  IF ~h2.ok THEN [h |-> h2, m |-> m]
                 ELSE IF ~rk.h.ok THEN [h |-> rk.h, m |-> m]
                 ELSE [h |-> rv.h, m |-> [m EXCEPT !.keys = rk.vec, !.values = rv.vec]]

(* ------------------------------ KeyValue ------------------------------- *)
(* impl Default for KeyValue *)
Default == [pairs |-> UnorderedMap_new(<<114>>)]

(* borsh of a Vec<u8>: u32 length, then the bytes *)
BorshBytes(b) == LE(Len(b), 4) \o b

(* #[derive(BorshSerialize)]: the fields in declaration order *)
BorshSerialize(c) ==
    BorshBytes(c.pairs.key_index_prefix)
    \o LE(c.pairs.keys.len, 8)   \o BorshBytes(c.pairs.keys.prefix)
    \o LE(c.pairs.values.len, 8) \o BorshBytes(c.pairs.values.prefix)

(* reads a Vec<u8> at offset o (1-based): [ok, val, next] *)
ReadBytes(b, o) ==
    IF Len(b) < o + 3 THEN [ok |-> FALSE, val |-> <<>>, next |-> o]
    ELSE LET n == FromLE(SubSeq(b, o, o + 3)) IN
         IF Len(b) < o + 3 + n THEN [ok |-> FALSE, val |-> <<>>, next |-> o]
         ELSE [ok |-> TRUE, val |-> SubSeq(b, o + 4, o + 3 + n), next |-> o + 4 + n]

(* reads a u64 at offset o: [ok, val, next] *)
ReadU64(b, o) ==
    IF Len(b) < o + 7 THEN [ok |-> FALSE, val |-> 0, next |-> o]
    ELSE [ok |-> TRUE, val |-> FromLE(SubSeq(b, o, o + 7)), next |-> o + 8]

(* #[derive(BorshDeserialize)]: [ok, val] *)
BorshDeserialize(b) ==
    LET ip == ReadBytes(b, 1)
        kl == ReadU64(b, ip.next)
        kp == ReadBytes(b, kl.next)
        vl == ReadU64(b, kp.next)
        vp == ReadBytes(b, vl.next)
    IN  IF ip.ok /\ kl.ok /\ kp.ok /\ vl.ok /\ vp.ok /\ vp.next = Len(b) + 1
        THEN [ok |-> TRUE,
              val |-> [pairs |-> [key_index_prefix |-> ip.val,
                                  keys   |-> [len |-> kl.val, prefix |-> kp.val],
                                  values |-> [len |-> vl.val, prefix |-> vp.val]]]]
        ELSE [ok |-> FALSE, val |-> Default]

(* b"STATE", the slot of the root record *)
STATE_KEY == <<83, 84, 65, 84, 69>>

(* env::state_read().unwrap_or_default() *)
state_read(h) ==
    LET h1 == storage_read(h, STATE_KEY) IN
    IF ~storage_has(h, STATE_KEY) THEN [h |-> h1, c |-> Default]
    ELSE LET d == BorshDeserialize(h.st[STATE_KEY]) IN
         IF d.ok THEN [h |-> h1, c |-> d.val] ELSE [h |-> panic(h1), c |-> Default]

(* env::state_write(&contract) *)
state_write(h, c) == storage_write(h, STATE_KEY, BorshSerialize(c))

NewCall(st) == [st |-> st, ev |-> <<>>, ok |-> TRUE]

(* variant: the diagnostic record is emitted after the insert *)
create_update_body_LogLast(h, c, k, v) ==
    LET r  == UnorderedMap_insert(h, c.pairs, k, v)
        h1 == log(r.h, "created or update")
    IN  [h |-> h1, c |-> [c EXCEPT !.pairs = r.m]]

(* body of KeyValue::create_update *)
create_update_body(h, c, k, v) ==
    LET h1 == log(h, "created or update")
        r  == UnorderedMap_insert(h1, c.pairs, k, v)
    IN  [h |-> r.h, c |-> [c EXCEPT !.pairs = r.m]]

(* body of KeyValue::read *)
read_body(h, c, k) ==
    LET h1 == log(h, "read") IN UnorderedMap_get(h1, c.pairs, k)

(* variant: the body looks the key up and removes nothing *)
delete_body_NoRemove(h, c, k) ==
    LET h1 == log(h, "delete")
        r  == UnorderedMap_get(h1, c.pairs, k)
    IN  [h |-> r.h, c |-> c]

(* body of KeyValue::delete *)
delete_body(h, c, k) ==
    LET h1 == log(h, "delete")
        r  == UnorderedMap_remove(h1, c.pairs, k)
    IN  [h |-> r.h, c |-> [c EXCEPT !.pairs = r.m]]

(* variant: the root record is not written back *)
create_update_NoPersist(st, k, v) ==
    LET s == state_read(NewCall(st))
        b == create_update_body(s.h, s.c, k, v)
    IN  IF ~s.h.ok THEN [h |-> s.h, ret |-> <<>>] ELSE [h |-> b.h, ret |-> <<>>]

(* the exported call of a &mut self method: load, body, persist *)
create_update(st, k, v) ==
    LET s == state_read(NewCall(st))
        b == create_update_body(s.h, s.c, k, v)
    IN  IF ~s.h.ok THEN [h |-> s.h, ret |-> <<>>]
        ELSE IF ~b.h.ok THEN [h |-> b.h, ret |-> <<>>]
        ELSE [h |-> state_write(b.h, b.c), ret |-> <<>>]

(* variant: the root record is written back as for a &mut self method *)
read_Persists(st, k) ==
    LET s == state_read(NewCall(st))
        b == read_body(s.h, s.c, k)
    IN  IF ~s.h.ok THEN [h |-> s.h, ret |-> <<>>]
        ELSE IF ~b.h.ok THEN [h |-> b.h, ret |-> <<>>]
        ELSE [h |-> state_write(b.h, s.c), ret |-> b.ret]

(* the exported call of a &self method: load, body, return *)
read(st, k) ==
    LET s == state_read(NewCall(st))
        b == read_body(s.h, s.c, k)
    IN  IF ~s.h.ok THEN [h |-> s.h, ret |-> <<>>] ELSE [h |-> b.h, ret |-> b.ret]

delete(st, k) ==
    LET s == state_read(NewCall(st))
        b == delete_body(s.h, s.c, k)
    IN  IF ~s.h.ok THEN [h |-> s.h, ret |-> <<>>]
        ELSE IF ~b.h.ok THEN [h |-> b.h, ret |-> <<>>]
        ELSE [h |-> state_write(b.h, b.c), ret |-> <<>>]

(* ------------------------------ state ---------------------------------- *)
VARIABLES
    storage,   \* the host storage of the contract account: physical key -> bytes
    events,    \* the host calls of the last call, in their order
    last,      \* the last call: [op, k, v, ret, ok]
    run,       \* the ops of the latest consecutive calls on the key last.k
    expected   \* key -> Option<value>, from the log of mutating calls

vars == <<storage, events, last, run, expected>>

MaxRun == 3

Init ==
    /\ storage = <<>>
    /\ events = <<>>
    /\ last = [op |-> "none", k |-> <<>>, v |-> <<>>, ret |-> <<>>, ok |-> TRUE]
    /\ run = <<>>
    /\ expected = [k \in Keys |-> <<>>]

(* the run of calls on one key, the oldest dropped beyond MaxRun *)
NextRun(op, k) ==
    LET r == IF last.op # "none" /\ last.k = k THEN Append(run, op) ELSE <<op>>
    IN  IF Len(r) > MaxRun THEN Tail(r) ELSE r

(* a call that panics leaves no trace in the storage *)
Commit(h) == IF h.ok THEN h.st ELSE storage

CallCreateUpdate(k, v) ==
    \E r \in {create_update(storage, k, v)} :
    /\ storage' = Commit(r.h)
    /\ events' = r.h.ev
    /\ last' = [op |-> "create_update", k |-> k, v |-> v, ret |-> r.ret, ok |-> r.h.ok]
    /\ run' = NextRun("create_update", k)
    /\ expected' = IF r.h.ok THEN [expected EXCEPT ![k] = <<v>>] ELSE expected

CallRead(k) ==
    \E r \in {read(storage, k)} :
    /\ storage' = Commit(r.h)
    /\ events' = r.h.ev
    /\ last' = [op |-> "read", k |-> k, v |-> <<>>, ret |-> r.ret, ok |-> r.h.ok]
    /\ run' = NextRun("read", k)
    /\ expected' = expected

CallDelete(k) ==
    \E r \in {delete(storage, k)} :
    /\ storage' = Commit(r.h)
    /\ events' = r.h.ev
    /\ last' = [op |-> "delete", k |-> k, v |-> <<>>, ret |-> r.ret, ok |-> r.h.ok]
    /\ run' = NextRun("delete", k)
    /\ expected' = IF r.h.ok THEN [expected EXCEPT ![k] = <<>>] ELSE expected

Next ==
    \/ \E k \in Keys, v \in Vals : CallCreateUpdate(k, v)
    \/ \E k \in Keys : CallRead(k)
    \/ \E k \in Keys : CallDelete(k)

Spec == Init /\ [][Next]_vars

(* the result of a read call on a storage, as a later call would see it *)
ReadResult(st, k) == LET r == read(st, k) IN [ret |-> r.ret, ok |-> r.h.ok]

(* UnorderedMap::keys_as_vector: the raw keys of the keys vector, in order *)
KeysVector(st) ==
    LET c == state_read(NewCall(st)).c
    IN  [i \in 1..c.pairs.keys.len |->
            storage_get(NewCall(st), index_to_lookup_key(c.pairs.keys, i - 1))]

EntriesOf(st, k) ==
    LET kv == KeysVector(st) IN
    Cardinality({i \in DOMAIN kv : kv[i] = <<BorshString(k)>>})

EndsWith(s, pat) ==
    /\ Len(s) >= Len(pat)
    /\ SubSeq(s, Len(s) - Len(pat) + 1, Len(s)) = pat

Present(st, k) == ReadResult(st, k).ret # <<>>

IsWrite(e) == e.fn \in {"storage_write", "storage_remove"}

(* ------------------------------ claims --------------------------------- *)

(* C1: a read(k) whose key was last written by create_update(k, v), with   *)
(* any calls on other keys before or in between, succeeds and returns v.   *)
C1_RoundTrip ==
    (last.op = "read" /\ expected[last.k] # <<>>)
        => (last.ok /\ last.ret = expected[last.k])

C1_Witness ==
    /\ EndsWith(run, <<"create_update", "read">>)
    /\ last.k = <<>>
    /\ last.ret = << <<98>> >>

(* C2: a read(k) of a key never written, or deleted since its last write,  *)
(* succeeds and returns None; on the fresh storage every key reads None.   *)
C2_Absence ==
    /\ (last.op = "read" /\ expected[last.k] = <<>>) => (last.ok /\ last.ret = <<>>)
    /\ storage = <<>> => \A k \in Keys : ReadResult(storage, k) = [ret |-> <<>>, ok |-> TRUE]

C2_Witness ==
    /\ storage = <<>>
    /\ last.op = "read"
    /\ last.ok
    /\ last.ret = <<>>

(* C3: create_update(k, v1), create_update(k, v2), read(k): the read       *)
(* returns v2 and the keys vector holds k exactly once.                    *)
C3_Overwrite ==
    EndsWith(run, <<"create_update", "create_update", "read">>)
        => /\ last.ok
           /\ last.ret # <<>>
           /\ last.ret = expected[last.k]
           /\ EntriesOf(storage, last.k) = 1

C3_Witness ==
    /\ EndsWith(run, <<"create_update", "create_update", "read">>)
    /\ last.ret = << <<98>> >>
    /\ EntriesOf(storage, last.k) = 1

(* C4: create_update(k, v), delete(k), read(k): the read returns None.     *)
C4_Deletion ==
    EndsWith(run, <<"create_update", "delete", "read">>)
        => (last.ok /\ last.ret = <<>>)

C4_Witness ==
    /\ EndsWith(run, <<"create_update", "delete", "read">>)
    /\ last.ok
    /\ last.ret = <<>>

(* C5: a delete(k) of a key that reads None completes without a panic and  *)
(* leaves the result of read(k') the same for every key k'.                *)
C5_IdempotentDelete ==
    [][(last'.op = "delete" /\ ~Present(storage, last'.k))
          => /\ last'.ok
             /\ \A k \in Keys : ReadResult(storage', k) = ReadResult(storage, k)]_vars

C5_Witness ==
    /\ EndsWith(run, <<"create_update", "delete", "delete">>)
    /\ last.ok
    /\ \E k \in Keys \ {last.k} : expected[k] # <<>>

(* C6: create_update(k1, v) leaves the result of read(k2) the same for     *)
(* every k2 # k1.                                                          *)
C6_Isolation ==
    [][last'.op = "create_update"
          => \A k2 \in Keys \ {last'.k} :
                ReadResult(storage', k2) = ReadResult(storage, k2)]_vars

C6_Witness ==
    /\ EndsWith(run, <<"create_update", "create_update">>)
    /\ last.ok
    /\ \E k2 \in Keys \ {last.k} : expected[k2] # <<>> /\ expected[k2] # <<last.v>>

(* C7: in every state, a call started cold on the storage reads, for each  *)
(* key, the value of the key's last create_update, and None for a key      *)
(* whose last mutating call was a delete or that had none.                 *)
C7_LogInvariant ==
    \A k \in Keys : ReadResult(storage, k) = [ret |-> expected[k], ok |-> TRUE]

C7_Witness ==
    /\ last.op = "delete"
    /\ last.ok
    /\ EndsWith(run, <<"create_update", "delete">>)
    /\ \E k \in Keys : expected[k] # <<>>

(* C8: a read call makes no storage write or removal and leaves the        *)
(* storage, root record included, as it was.                               *)
C8_ReadOnly ==
    [][last'.op = "read"
          => /\ storage' = storage
             /\ \A i \in DOMAIN events' : ~IsWrite(events'[i])]_vars

C8_Witness ==
    /\ last.op = "read"
    /\ last.ret # <<>>
    /\ STATE_KEY \in DOMAIN storage

(* C9 as stated: in a create_update call the diagnostic record is emitted  *)
(* after every storage write of the call (the insert's and the persist).   *)
C9_LogAfterPersist ==
    (last.op = "create_update" /\ last.ok)
        => \A i, j \in DOMAIN events :
              (events[i].fn = "log" /\ events[j].fn = "storage_write") => j < i

(* C9 amended: a create_update call reads the root record, then emits the  *)
(* diagnostic record "created or update", then makes the insert's storage  *)
(* writes, then writes the root record, which is its last host call.       *)
C9_LogBeforeInsert ==
    (last.op = "create_update" /\ last.ok)
        => /\ Len(events) >= 4
           /\ events[1] = Event("storage_read", STATE_KEY, "")
           /\ events[2] = Event("log", <<>>, "created or update")
           /\ \A i \in DOMAIN events : i # 2 => events[i].fn # "log"
           /\ \A i \in DOMAIN events : IsWrite(events[i]) => i > 2
           /\ events[Len(events)] = Event("storage_write", STATE_KEY, "")
           /\ \A i \in DOMAIN events :
                 (events[i].fn = "storage_write" /\ events[i].key = STATE_KEY)
                     => i = Len(events)
           /\ \E i \in 3..(Len(events) - 1) : events[i].fn = "storage_write"

C9_Witness ==
    /\ last.op = "create_update"
    /\ last.ok
    /\ Len(events) >= 4
    /\ events[2].fn = "log"

(* C10: delete(k1) leaves the result of read(k2) the same for every        *)
(* k2 # k1, also when the last key of the keys vector is moved into the    *)
(* place of k1.                                                            *)
C10_DeleteIsolation ==
    [][last'.op = "delete"
          => \A k2 \in Keys \ {last'.k} :
                ReadResult(storage', k2) = ReadResult(storage, k2)]_vars

(* a delete that rewrote the index record of a moved key *)
C10_Witness ==
    /\ last.op = "delete"
    /\ last.ok
    /\ \E i \in DOMAIN events :
          /\ events[i].fn = "storage_write"
          /\ Len(events[i].key) > 2
          /\ SubSeq(events[i].key, 1, 2) = Default.pairs.key_index_prefix

====
